---- MODULE Spec2Model ----
(***************************************************************************)
(* A model of the stencil operator of the AllScale API                     *)
(* (code/api/include/allscale/api/user/operator/stencil.h): the three      *)
(* iterative double-buffer strategies, the zoid geometry (Base, Zoid,      *)
(* plain_scanner, splitTime, splitSpace), the ExecutionPlan and its        *)
(* sequential and parallel drivers.                                        *)
(*                                                                         *)
(* Dimensions are numbered 1..N here (0..N-1 in the code); bit j-1 of a    *)
(* task mask belongs to dimension j. A coordinate is a tuple of length N.  *)
(***************************************************************************)
EXTENDS Integers, Sequences, FiniteSets, Bags, TLC

\* ------------------------------------------------------------------------
\* Bounds of the model
\* ------------------------------------------------------------------------

\* largest extent of a 1-D container
MaxExtent == 4

\* largest number of time steps of one stencil call
MaxSteps == 3

\* cell values are the integers modulo ValMod
ValMod == 5

\* largest depth of the prec recursion that may still take the parallel
\* step case of pick (deeper calls take the sequential alternative)
MaxDepth == 3

\* largest number of layers ExecutionPlan::create is followed through
MaxLayers == 4

\* largest number of dimensions the task graph enumerator is applied with
MaxDims == 5

\* ------------------------------------------------------------------------
\* Integer helpers
\* ------------------------------------------------------------------------

Min(x, y) == IF x < y THEN x ELSE y

Max(x, y) == IF x > y THEN x ELSE y

\* C++ integer division (truncation towards zero)
CDiv(x, y) == IF x >= 0 THEN x \div y ELSE -((-x) \div y)

\* C++ remainder (sign of the dividend)
CMod(x, y) == x - y * CDiv(x, y)

\* the sequence lo, lo+1, ..., hi-1 (empty when lo >= hi): a counting loop
IntSeq(lo, hi) == [k \in 1..(hi - lo) |-> lo + k - 1]

RECURSIVE Flatten(_)
Flatten(ss) == IF ss = <<>> THEN <<>> ELSE Head(ss) \o Flatten(Tail(ss))

\* __builtin_popcount
RECURSIVE PopCount(_)
PopCount(m) == IF m = 0 THEN 0 ELSE (m % 2) + PopCount(m \div 2)

\* taskIdx & (1 << j): bit j (0-based) of mask m
Bit(m, j) == (m \div (2 ^ j)) % 2

\* ------------------------------------------------------------------------
\* Base
\* ------------------------------------------------------------------------

\* Base::full(size)
BaseFull(size) == [i \in 1..Len(size) |-> [begin |-> 0, end |-> size[i]]]

\* Base::getWidth(dim)
BaseGetWidth(base, d) == base[d].end - base[d].begin

\* Base::extend()
BaseExtend(base) == [i \in 1..Len(base) |-> BaseGetWidth(base, i)]

RECURSIVE MinWidthUpTo(_, _)
MinWidthUpTo(base, n) ==
    IF n = 1 THEN BaseGetWidth(base, 1)
    ELSE Min(MinWidthUpTo(base, n - 1), BaseGetWidth(base, n))

\* Base::getMinimumWidth()
GetMinimumWidth(base) == MinWidthUpTo(base, Len(base))

RECURSIVE MaxWidthUpTo(_, _)
MaxWidthUpTo(base, n) ==
    IF n = 1 THEN BaseGetWidth(base, 1)
    ELSE Max(MaxWidthUpTo(base, n - 1), BaseGetWidth(base, n))

\* Base::getMaximumWidth()
GetMaximumWidth(base) == MaxWidthUpTo(base, Len(base))

\* ------------------------------------------------------------------------
\* plain_scanner
\* ------------------------------------------------------------------------

\* a variant of the scanner without its second loop: the part of the range
\* beyond the extent is dropped instead of being wrapped around
ScanRangeNoWrap(from, to, length) ==
    LET shift == from > length
        f     == IF shift THEN from - length ELSE from
        t     == IF shift THEN to - length ELSE to
    IN  [k \in 1..(Min(t, length) - f) |-> f + k - 1]

\* a variant of the scanner whose second loop goes on beyond the extent
\* instead of starting again at 0
ScanRangeNoModulo(from, to, length) ==
    LET shift == from > length
        f     == IF shift THEN from - length ELSE from
        t     == IF shift THEN to - length ELSE to
        limit == Min(t, length)
    IN  IntSeq(f, limit) \o (IF t <= length THEN <<>> ELSE IntSeq(length, t))

\* the coordinates one level of the scanner walks through for the range
\* [from, to) of a dimension of extent length, in the order of the two loops
ScanRange(from, to, length) ==
    LET shift == from > length
        f     == IF shift THEN from - length ELSE from
        t     == IF shift THEN to - length ELSE to
        limit == Min(t, length)
    IN  IntSeq(f, limit) \o (IF t <= length THEN <<>> ELSE IntSeq(0, t - length))

\* plain_scanner<dim>::operator(): the positions handed to the lambda, in
\* order; dimension d is the outermost of the remaining loops
RECURSIVE ScanFrom(_, _, _, _)
ScanFrom(base, size, d, pos) ==
    IF d > Len(base) THEN << pos >>
    ELSE LET xs == ScanRange(base[d].begin, base[d].end, size[d])
         IN  Flatten([k \in 1..Len(xs) |->
                        ScanFrom(base, size, d + 1, Append(pos, xs[k]))])

PlainScan(base, size) == ScanFrom(base, size, 1, <<>>)

\* ------------------------------------------------------------------------
\* Zoid
\* ------------------------------------------------------------------------

Zoid(base, slopes, tb, te) ==
    [base |-> base, slopes |-> slopes, t_begin |-> tb, t_end |-> te]

\* Zoid::getHeight()
GetHeight(z) == z.t_end - z.t_begin

\* the plain of forEach after tau iterations of its time loop
PlainBase(z, tau) ==
    [i \in 1..Len(z.base) |->
        [begin |-> z.base[i].begin + tau * z.slopes[i],
         end   |-> z.base[i].end - tau * z.slopes[i]]]

\* Zoid::forEach: the calls << t, pos >> of the even (t even) and odd (t odd)
\* callbacks, in order
ForEachCalls(z, limits) ==
    Flatten([k \in 1..GetHeight(z) |->
        LET t  == z.t_begin + k - 1
            ps == PlainScan(PlainBase(z, k - 1), limits)
        IN  [j \in 1..Len(ps) |-> << t, ps[j] >>]])

\* Zoid::isTerminal()
IsTerminal(z) == GetHeight(z) <= 1 /\ GetMaximumWidth(z.base) < 3

\* Zoid::getWidth(dim): the width of the shadow of the zoid
GetWidth(z, d) ==
    BaseGetWidth(z.base, d) + (IF z.slopes[d] < 0 THEN 2 * GetHeight(z) ELSE 0)

\* Zoid::isSplitable(dim)
IsSplitable(z, d) == GetWidth(z, d) > 4 * GetHeight(z)

\* Zoid::isSpaceSplitable()
IsSpaceSplitable(z) == \E d \in 1..Len(z.base) : IsSplitable(z, d)

\* a variant of splitTime whose top keeps the base of the zoid
SplitTimeSameBase(z) ==
    LET split == CDiv(GetHeight(z), 2)
    IN  [top    |-> Zoid(z.base, z.slopes, z.t_begin + split, z.t_end),
         bottom |-> Zoid(z.base, z.slopes, z.t_begin, z.t_begin + split)]

\* Zoid::splitTime()
SplitTime(z) ==
    LET split == CDiv(GetHeight(z), 2)
        mid   == [i \in 1..Len(z.base) |->
                    [begin |-> z.base[i].begin + z.slopes[i] * split,
                     end   |-> z.base[i].end - z.slopes[i] * split]]
    IN  [top    |-> Zoid(mid, z.slopes, z.t_begin + split, z.t_end),
         bottom |-> Zoid(z.base, z.slopes, z.t_begin, z.t_begin + split)]

\* a variant of the loop of splitSpace without the comparison of the widths:
\* the last dimension is taken
RECURSIVE LongestUpToLast(_, _)
LongestUpToLast(z, n) ==
    IF n = 0 THEN << 1, 0 >>
    ELSE LET prev == LongestUpToLast(z, n - 1)
         IN  IF n >= prev[1] THEN << n, GetWidth(z, n) >> ELSE prev

\* the loop of splitSpace that finds the longest dimension: the state
\* << max_dim, max_width >> after the first n dimensions
RECURSIVE LongestUpTo(_, _)
LongestUpTo(z, n) ==
    IF n = 0 THEN << 1, 0 >>
    ELSE LET prev == LongestUpTo(z, n - 1)
         IN  IF GetWidth(z, n) > prev[2] THEN << n, GetWidth(z, n) >> ELSE prev

SplitDim(z) == LongestUpTo(z, Len(z.base))[1]

\* a variant of splitSpace that leaves the direction of the center piece as
\* it is
SplitSpaceNoInvert(z) ==
    LET d      == SplitDim(z)
        center == CDiv(z.base[d].begin + z.base[d].end, 2)
        open   == z.slopes[d] < 0
        left   == IF open THEN center - GetHeight(z) ELSE center
        right  == IF open THEN center + GetHeight(z) ELSE center
    IN  [l |-> [z EXCEPT !.base[d].end = left],
         c |-> [z EXCEPT !.base[d] = [begin |-> left, end |-> right]],
         r |-> [z EXCEPT !.base[d].begin = right],
         opening |-> open]

\* Zoid::splitSpace()
SplitSpace(z) ==
    LET d      == SplitDim(z)
        center == CDiv(z.base[d].begin + z.base[d].end, 2)
        open   == z.slopes[d] < 0
        left   == IF open THEN center - GetHeight(z) ELSE center
        right  == IF open THEN center + GetHeight(z) ELSE center
    IN  [l |-> [z EXCEPT !.base[d].end = left],
         c |-> [z EXCEPT !.base[d] = [begin |-> left, end |-> right],
                         !.slopes[d] = -1 * z.slopes[d]],
         r |-> [z EXCEPT !.base[d].begin = right],
         opening |-> open]

\* ------------------------------------------------------------------------
\* Containers and update functions
\* ------------------------------------------------------------------------

RECURSIVE CellsUpTo(_, _)
CellsUpTo(size, n) ==
    IF n = 0 THEN { <<>> }
    ELSE { Append(p, i) : p \in CellsUpTo(size, n - 1), i \in 0..(size[n] - 1) }

\* the index space of a container of the given size (a.size())
Cells(size) == CellsUpTo(size, Len(size))

\* p is a position of a container of the given size
InRange(p, size) == \A i \in 1..Len(size) : 0 <= p[i] /\ p[i] < size[i]

\* the content of a cell that was never written (Container b(a.size())): an
\* indeterminate value; whatever is computed from it is indeterminate too
Undef == -1

Val == 0..(ValMod - 1)

\* p + d, taken modulo the extents
Wrap(p, d, size) == [i \in 1..Len(size) |-> (p[i] + d[i]) % size[i]]

RECURSIVE OffsetsUpTo(_)
OffsetsUpTo(n) ==
    IF n = 0 THEN { <<>> }
    ELSE { Append(d, o) : d \in OffsetsUpTo(n - 1), o \in {-1, 0, 1} }

\* the cells within distance 1 of p in each dimension, modulo the extents
Neighbours(p, size) == { Wrap(p, d, size) : d \in OffsetsUpTo(Len(size)) }

\* the step -1 along the first dimension
ShiftOffset(n) == [i \in 1..n |-> IF i = 1 THEN -1 ELSE 0]

\* the weight the update "mix" gives the neighbour at offset d (1..3^N)
RECURSIVE Weight(_)
Weight(d) ==
    IF d = <<>> THEN 1
    ELSE (d[Len(d)] + 1) * (3 ^ (Len(d) - 1)) + Weight(SubSeq(d, 1, Len(d) - 1))

RECURSIVE SumOver(_, _, _, _)
SumOver(ds, p, V, size) ==
    IF ds = {} THEN 0
    ELSE LET d == CHOOSE e \in ds : TRUE
         IN  Weight(d) * V[Wrap(p, d, size)] + SumOver(ds \ {d}, p, V, size)

\* the update functions the operator is applied with
Updates == { "shift", "mix" }

\* the cells update u reads at p
Reads(u, p, size) ==
    IF u = "shift" THEN { Wrap(p, ShiftOffset(Len(size)), size) }
    ELSE Neighbours(p, size)

\* update(t, p, V): a pure function of the time and of cells of V within
\* distance 1 of p
Update(u, t, p, V, size) ==
    IF \E q \in Reads(u, p, size) : V[q] = Undef THEN Undef
    ELSE IF u = "shift" THEN V[Wrap(p, ShiftOffset(Len(size)), size)]
    ELSE (t + 1 + SumOver(OffsetsUpTo(Len(size)), p, V, size)) % ValMod

\* the position of cell p in row-major order
RECURSIVE CellIndex(_, _)
CellIndex(p, size) ==
    IF p = <<>> THEN 0
    ELSE CellIndex(SubSeq(p, 1, Len(p) - 1), size) * size[Len(p)] + p[Len(p)]

\* a container holding a ramp
Ramp(size) == [p \in Cells(size) |-> (CellIndex(p, size) + 1) % ValMod]

\* a container holding a single one, in the last cell
OneHot(size) ==
    [p \in Cells(size) |-> IF \A i \in 1..Len(size) : p[i] = size[i] - 1
                           THEN 1 ELSE 0]

\* the initial containers
Containers(size) == { Ramp(size), OneHot(size) }

\* a freshly constructed shadow buffer
Fresh(size) == [p \in Cells(size) |-> Undef]

\* ------------------------------------------------------------------------
\* State
\* ------------------------------------------------------------------------

VARIABLES
    impl,    \* the strategy (the template argument Impl of stencil)
    size,    \* a.size(), the extents of the container
    upd,     \* the update function f
    todo,    \* the step counts of the stencil calls still to be made
    toff,    \* the steps of the completed calls: call k runs f(t + toff, ..)
    steps,   \* the argument steps of the current call
    orig,    \* the container before the first call
    a0,      \* the container when the current call started
    a,       \* the caller's container
    b,       \* the shadow buffer of the current call
    pc,      \* the position of the body of process
    t,       \* the loop variable t of the iterative strategies, t0 of create
    x,       \* the read pointer of the iterative strategies: "a" or "b"
    pend,    \* the pfor iterations << t, i >> spawned and not yet executed
    layers,  \* ExecutionPlan::layers
    li,      \* the index of the layer runSequential / runParallel is at
    rem,     \* the task masks of that layer runSequential has yet to process
    tasks,   \* the tasks of runParallel: path -> [zoid, st, run, deps]
    last,    \* the handle last of runParallel (a path; << >> is core::done())
    calls,   \* the bag of all invocations << t, p >> of update in this call
    nswap,   \* the number of std::swap(a, b) executed in this call
    probe,   \* the argument and result of a function applied on its own
    oob      \* whether a callback was handed a position outside the container

vars == << impl, size, upd, todo, toff, steps, orig, a0, a, b, pc, t, x,
           pend, layers, li, rem, tasks, last, calls, nswap, probe, oob >>

\* the inputs of a run, never changed
input == << impl, size, upd, orig, probe >>

\* what the iterative strategies never touch
recvars == << layers, li, rem, tasks, last, oob >>

Strategies ==
    { "sequential_iterative", "coarse_grained_iterative",
      "fine_grained_iterative", "sequential_recursive", "parallel_recursive" }

\* the 1-D containers of the model
Sizes1D == { << n >> : n \in 0..MaxExtent }

\* one call, or two calls in a row
CallPlans ==
    { << n >> : n \in 0..MaxSteps }
    \cup { << n, m >> : n \in 1..MaxSteps, m \in 1..MaxSteps }

InitMain(strategies, sizes, updates, plans) ==
    /\ impl \in strategies
    /\ size \in sizes
    /\ upd \in updates
    /\ todo \in plans
    /\ orig \in Containers(size)
    /\ toff = 0
    /\ steps = 0
    /\ a0 = orig
    /\ a = orig
    /\ b = Fresh(size)
    /\ pc = "idle"
    /\ t = 0
    /\ x = "a"
    /\ pend = {}
    /\ layers = <<>>
    /\ li = 0
    /\ rem = {}
    /\ tasks = << >>
    /\ last = << >>
    /\ calls = EmptyBag
    /\ nswap = 0
    /\ oob = FALSE

InitWith(strategies, sizes, updates, plans) ==
    /\ probe = << >>
    /\ InitMain(strategies, sizes, updates, plans)

Init ==
    InitWith(Strategies, Sizes1D, Updates, { p \in CallPlans : Len(p) = 1 })

\* the buffer a pointer names
Deref(ptr) == IF ptr = "a" THEN a ELSE b

Other(ptr) == IF ptr = "a" THEN "b" ELSE "a"

\* the position the body of process of a strategy starts at
Entry(strategy) ==
    IF strategy \in { "sequential_recursive", "parallel_recursive" }
    THEN "create" ELSE "loop"

\* stencil(a, steps, update): forwards to Impl().process, which constructs
\* the shadow buffer and the pointers
Stencil ==
    /\ pc = "idle"
    /\ todo # << >>
    /\ steps' = Head(todo)
    /\ todo' = Tail(todo)
    /\ toff' = toff + steps
    /\ a0' = a
    /\ b' = Fresh(size)
    /\ pc' = Entry(impl)
    /\ t' = 0
    /\ x' = "a"
    /\ pend' = {}
    /\ layers' = << >>
    /\ li' = 0
    /\ rem' = {}
    /\ tasks' = << >>
    /\ last' = << >>
    /\ calls' = EmptyBag
    /\ nswap' = 0
    /\ oob' = FALSE
    /\ UNCHANGED << input, a >>

\* the record of one invocation of update
Called(tt, p) == calls (+) SetToBag({ << tt, p >> })

\* the loop body (*y)[i] = update(t, i, *x) for every i: one whole sweep
Sweep(tt, V) == [p \in Cells(size) |-> Update(upd, tt + toff, p, V, size)]

SweepCalls(tt) == calls (+) SetToBag({ << tt, p >> : p \in Cells(size) })

\* "make sure result is in a": if (x != &a) std::swap(a, b)
MoveResult(ptr) ==
    IF ptr # "a"
    THEN a' = b /\ b' = a /\ nswap' = nswap + 1
    ELSE UNCHANGED << a, b, nswap >>

\* -- sequential_iterative ------------------------------------------------

SeqIterStep ==
    /\ impl = "sequential_iterative" /\ pc = "loop"
    /\ t < steps
    /\ IF x = "a" THEN b' = Sweep(t, a) /\ a' = a
                  ELSE a' = Sweep(t, b) /\ b' = b
    /\ calls' = SweepCalls(t)
    /\ x' = Other(x)
    /\ t' = t + 1
    /\ UNCHANGED << input, todo, toff, steps, a0, pc, pend, recvars, nswap >>

SeqIterFinish ==
    /\ impl = "sequential_iterative" /\ pc = "loop"
    /\ ~ (t < steps)
    /\ MoveResult(x)
    /\ pc' = "idle"
    /\ UNCHANGED << input, todo, toff, steps, a0, t, x, pend, recvars, calls >>

\* -- pfor ------------------------------------------------------------------

\* one iteration of a pfor body: (*y)[i] = update(t, i, *x), with x and y as
\* captured when the loop was issued (x is a at even t, b at odd t)
PforBody(tt, i) ==
    /\ IF tt % 2 = 0
       THEN b' = [b EXCEPT ![i] = Update(upd, tt + toff, i, a, size)] /\ a' = a
       ELSE a' = [a EXCEPT ![i] = Update(upd, tt + toff, i, b, size)] /\ b' = b
    /\ calls' = Called(tt, i)
    /\ pend' = pend \ { << tt, i >> }

\* -- coarse_grained_iterative ----------------------------------------------

CoarseSpawn ==
    /\ impl = "coarse_grained_iterative" /\ pc = "loop"
    /\ t < steps
    /\ pend' = { << t, i >> : i \in Cells(size) }
    /\ pc' = "pfor"
    /\ UNCHANGED << input, todo, toff, steps, a0, a, b, t, x, recvars, calls,
                    nswap >>

CoarseTask ==
    /\ impl = "coarse_grained_iterative" /\ pc = "pfor"
    /\ \E w \in pend : PforBody(w[1], w[2])
    /\ UNCHANGED << input, todo, toff, steps, a0, pc, t, x, recvars, nswap >>

\* the pfor has completed (blocking synchronization); swap the pointers
CoarseJoin ==
    /\ impl = "coarse_grained_iterative" /\ pc = "pfor"
    /\ pend = {}
    /\ x' = Other(x)
    /\ t' = t + 1
    /\ pc' = "loop"
    /\ UNCHANGED << input, todo, toff, steps, a0, a, b, pend, recvars, calls,
                    nswap >>

CoarseFinish ==
    /\ impl = "coarse_grained_iterative" /\ pc = "loop"
    /\ ~ (t < steps)
    /\ MoveResult(x)
    /\ pc' = "idle"
    /\ UNCHANGED << input, todo, toff, steps, a0, t, x, pend, recvars, calls >>

\* -- fine_grained_iterative ------------------------------------------------

\* neighborhood_sync(ref): the iterations of the previous loop that
\* iteration i of the next loop waits for
SyncOn(i) == Neighbours(i, size)

\* ref = pfor(.., neighborhood_sync(ref)); std::swap(x, y): the loop is
\* issued, not awaited
FineSpawn ==
    /\ impl = "fine_grained_iterative" /\ pc = "loop"
    /\ t < steps
    /\ pend' = pend \cup { << t, i >> : i \in Cells(size) }
    /\ x' = Other(x)
    /\ t' = t + 1
    /\ UNCHANGED << input, todo, toff, steps, a0, a, b, pc, recvars, calls,
                    nswap >>

\* a variant of the task whose iteration i waits for iteration i of the
\* previous loop only
FineTaskOneOnOne ==
    /\ impl = "fine_grained_iterative"
    /\ \E w \in pend :
          /\ << w[1] - 1, w[2] >> \notin pend
          /\ PforBody(w[1], w[2])
    /\ UNCHANGED << input, todo, toff, steps, a0, pc, t, x, recvars, nswap >>

\* one iteration of a loop runs once the iterations it waits for are through
FineTask ==
    /\ impl = "fine_grained_iterative"
    /\ \E w \in pend :
          /\ \A j \in SyncOn(w[2]) : << w[1] - 1, j >> \notin pend
          /\ PforBody(w[1], w[2])
    /\ UNCHANGED << input, todo, toff, steps, a0, pc, t, x, recvars, nswap >>

\* "make sure result is in a", executed before ref.wait()
FineMoveResult ==
    /\ impl = "fine_grained_iterative" /\ pc = "loop"
    /\ ~ (t < steps)
    /\ MoveResult(x)
    /\ pc' = "wait"
    /\ UNCHANGED << input, todo, toff, steps, a0, t, x, pend, recvars, calls >>

\* ref.wait(): the last loop, and with it every loop before it, is complete
FineWait ==
    /\ impl = "fine_grained_iterative" /\ pc = "wait"
    /\ \A w \in pend : w[1] # t - 1
    /\ pc' = "idle"
    /\ UNCHANGED << input, todo, toff, steps, a0, a, b, t, x, pend, recvars, calls,
                    nswap >>

\* -- ExecutionPlan::create -------------------------------------------------

\* the number of tasks of a layer, 1 << Dims
NumTasks(n) == 2 ^ n

\* the height of the layers: half the smallest width
LayerHeight(base) == CDiv(GetMinimumWidth(base), 2)

\* the base area partitioning of create: the ranges left and right of
\* dimension i
PlanSplit(base, i) ==
    LET curWidth == BaseExtend(base)[i]
        mid      == curWidth - CDiv(curWidth - GetMinimumWidth(base), 2)
    IN  [left  |-> [begin |-> 0, end |-> mid],
         right |-> [begin |-> mid, end |-> curWidth]]

\* the zoid create builds for bit pattern m in the layer [t0, t1)
PlanZoid(base, m, t0, t1) ==
    Zoid([j \in 1..Len(base) |->
            IF Bit(m, j - 1) = 1 THEN PlanSplit(base, j).right
                                 ELSE PlanSplit(base, j).left],
         [j \in 1..Len(base) |-> IF Bit(m, j - 1) = 1 THEN -1 ELSE 1],
         t0, t1)

\* the layer_plan one iteration of the loop over t0 appends
PlanLayer(base, t0, nsteps) ==
    LET t1 == Min(t0 + LayerHeight(base), nsteps)
    IN  [m \in 0..(NumTasks(Len(base)) - 1) |-> PlanZoid(base, m, t0, t1)]

\* one iteration of for(int t0=0; t0<steps; t0+=height)
CreateLayer ==
    /\ pc = "create"
    /\ t < steps
    /\ Len(layers) < MaxLayers
    /\ layers' = Append(layers, PlanLayer(BaseFull(size), t, steps))
    /\ t' = t + LayerHeight(BaseFull(size))
    /\ UNCHANGED << input, todo, toff, steps, a0, a, b, pc, x, pend, li, rem,
                    tasks, last, calls, nswap, oob >>

\* create returns the plan; runSequential or runParallel takes over
CreateDone ==
    /\ pc = "create"
    /\ ~ (t < steps)
    /\ pc' = IF impl = "sequential_recursive" THEN "runseq" ELSE "runpar"
    /\ li' = 1
    /\ rem' = 0..(NumTasks(Len(size)) - 1)
    /\ UNCHANGED << input, todo, toff, steps, a0, a, b, t, x, pend, layers,
                    tasks, last, calls, nswap, oob >>

\* -- the even / odd adapters -----------------------------------------------

\* even: b[p] = update(t, p, a); odd: a[p] = update(t, p, b). The state is
\* [a, b, calls, oob]; a position outside the container is recorded
Callback(c, s) ==
    LET tt == c[1]
        p  == c[2]
        cs == s.calls (+) SetToBag({ c })
    IN  IF ~ InRange(p, size) THEN [s EXCEPT !.calls = cs, !.oob = TRUE]
        ELSE IF tt % 2 = 0
        THEN [s EXCEPT !.b[p] = Update(upd, tt + toff, p, s.a, size), !.calls = cs]
        ELSE [s EXCEPT !.a[p] = Update(upd, tt + toff, p, s.b, size), !.calls = cs]

RECURSIVE ApplyCalls(_, _)
ApplyCalls(cs, s) ==
    IF cs = << >> THEN s ELSE ApplyCalls(Tail(cs), Callback(Head(cs), s))

Buffers == [a |-> a, b |-> b, calls |-> calls, oob |-> oob]

SetBuffers(s) == a' = s.a /\ b' = s.b /\ calls' = s.calls /\ oob' = s.oob

\* a variant of the final swap with the parity test inverted
MoveResultRecEven ==
    IF CMod(steps, 2) = 0
    THEN a' = b /\ b' = a /\ nswap' = nswap + 1
    ELSE UNCHANGED << a, b, nswap >>

\* "make sure the result is in the a copy": if (steps % 2) std::swap(a, b)
MoveResultRec ==
    IF CMod(steps, 2) # 0
    THEN a' = b /\ b' = a /\ nswap' = nswap + 1
    ELSE UNCHANGED << a, b, nswap >>

\* -- sequential_recursive: ExecutionPlan::runSequential ----------------------

\* a variant of the order that leaves the indices unsorted: any mask may be
\* next
NextInOrderUnsorted(left) == left

\* the masks std::sort may have put next: those of the fewest 1-bits
NextInOrder(left) ==
    { m \in left : \A k \in left : PopCount(m) <= PopCount(k) }

\* cur[idx].forEach(even, odd, limits) for the next idx of the order
RunSequentialZoid ==
    /\ pc = "runseq"
    /\ li <= Len(layers)
    /\ \E m \in NextInOrder(rem) :
          /\ SetBuffers(ApplyCalls(ForEachCalls(layers[li][m], size), Buffers))
          /\ IF rem = { m }
             THEN li' = li + 1 /\ rem' = 0..(NumTasks(Len(size)) - 1)
             ELSE li' = li /\ rem' = rem \ { m }
    /\ UNCHANGED << input, todo, toff, steps, a0, pc, t, x, pend, layers,
                    tasks, last, nswap >>

SeqRecFinish ==
    /\ pc = "runseq"
    /\ li > Len(layers)
    /\ MoveResultRec
    /\ pc' = "idle"
    /\ UNCHANGED << input, todo, toff, steps, a0, t, x, pend, layers, li, rem,
                    tasks, last, calls, oob >>

\* -- the task graph enumerator ---------------------------------------------

\* a variant of the extractor whose specialisation for position 0 ignores
\* the lowest bit
RECURSIVE ExtractSkipLast(_, _)
ExtractSkipLast(taskIdx, pos) ==
    LET this == IF Bit(taskIdx, pos) = 1
                THEN << taskIdx - 2 ^ pos >> ELSE << >>
    IN  IF pos = 0 THEN << >> ELSE this \o ExtractSkipLast(taskIdx, pos - 1)

\* task_dependency_extractor<taskIdx, pos>: the predecessors handed to the
\* body, in order, for the bit positions pos, pos-1, .., 0
RECURSIVE Extract(_, _)
Extract(taskIdx, pos) ==
    LET this == IF Bit(taskIdx, pos) = 1
                THEN << taskIdx - 2 ^ pos >> ELSE << >>
    IN  IF pos = 0 THEN this ELSE this \o Extract(taskIdx, pos - 1)

\* task_dependency_enumerator<Dims, taskIdx>::visit(body, numBits): the calls
\* << idx, deps >> of the body, in order
RECURSIVE Visit(_, _, _)
Visit(n, taskIdx, numBits) ==
    IF taskIdx = 0
    THEN IF numBits = 0 THEN << << 0, Extract(0, n - 1) >> >> ELSE << >>
    ELSE Visit(n, taskIdx - 1, numBits)
         \o (IF PopCount(taskIdx) = numBits
             THEN << << taskIdx, Extract(taskIdx, n - 1) >> >> ELSE << >>)

\* task_graph_enumerator<Dims>: for(i = 0; i <= Dims; i++) visit(body, i)
EnumTaskGraph(n) ==
    Flatten([i \in 1..(n + 1) |-> Visit(n, NumTasks(n) - 1, i - 1)])

\* -- Zoid::pforEach --------------------------------------------------------

Range(f) == { f[k] : k \in DOMAIN f }

\* a variant of the step case that runs the top of a time split before the
\* bottom
StepCaseTopFirst(z) ==
    IF ~ IsSpaceSplitable(z)
    THEN [kids  |-> << SplitTime(z).bottom, SplitTime(z).top >>,
          stage |-> << 2, 1 >>]
    ELSE LET parts == SplitSpace(z)
         IN  [kids  |-> << parts.l, parts.c, parts.r >>,
              stage |-> IF parts.opening THEN << 2, 1, 2 >> ELSE << 1, 2, 1 >>]

\* a variant of the step case that runs the three parts of a space split
\* all in parallel
StepCaseParallel(z) ==
    IF ~ IsSpaceSplitable(z)
    THEN [kids  |-> << SplitTime(z).bottom, SplitTime(z).top >>,
          stage |-> << 1, 2 >>]
    ELSE LET parts == SplitSpace(z)
         IN  [kids  |-> << parts.l, parts.c, parts.r >>,
              stage |-> << 1, 1, 1 >>]

\* a variant of the step case that schedules an opening space split as a
\* closing one and a closing one as an opening one
StepCaseSwapped(z) ==
    IF ~ IsSpaceSplitable(z)
    THEN [kids  |-> << SplitTime(z).bottom, SplitTime(z).top >>,
          stage |-> << 1, 2 >>]
    ELSE LET parts == SplitSpace(z)
         IN  [kids  |-> << parts.l, parts.c, parts.r >>,
              stage |-> IF parts.opening THEN << 1, 2, 1 >> ELSE << 2, 1, 2 >>]

\* a variant of the step case that leaves out the center piece of a space
\* split
StepCaseNoCenter(z) ==
    IF ~ IsSpaceSplitable(z)
    THEN [kids  |-> << SplitTime(z).bottom, SplitTime(z).top >>,
          stage |-> << 1, 2 >>]
    ELSE LET parts == SplitSpace(z)
         IN  [kids  |-> << parts.l, parts.r >>,
              stage |-> << 1, 1 >>]

\* the step case of pforEach: the sub-zoids rec is called with and the
\* stage of core::sequential each belongs to (the members of a stage are
\* combined by core::parallel)
StepCase(z) ==
    IF ~ IsSpaceSplitable(z)
    THEN [kids  |-> << SplitTime(z).bottom, SplitTime(z).top >>,
          stage |-> << 1, 2 >>]
    ELSE LET parts == SplitSpace(z)
         IN  [kids  |-> << parts.l, parts.c, parts.r >>,
              stage |-> IF parts.opening THEN << 2, 1, 2 >> ELSE << 1, 2, 1 >>]

\* a task: its zoid, its state ("new", "split", "run", "done"), the calls
\* its running forEach has yet to make, and the handles it waits for
Task(z, deps) == [zoid |-> z, st |-> "new", run |-> << >>, deps |-> deps]

Parent(path) == SubSeq(path, 1, Len(path) - 1)

\* the handle is complete
HandleDone(h) == IF h = << >> THEN TRUE ELSE tasks[h].st = "done"

\* task path may start: its dependencies are complete and so is every
\* earlier stage of the step case that created it
Ready(path) ==
    /\ tasks[path].st = "new"
    /\ \A d \in tasks[path].deps : HandleDone(d)
    /\ Len(path) > 2 =>
          LET sc == StepCase(tasks[Parent(path)].zoid)
          IN  \A k \in 1..Len(sc.kids) :
                 sc.stage[k] < sc.stage[path[Len(path)]]
                    => tasks[Append(Parent(path), k)].st = "done"

\* params.zoid.forEach(even, odd, limits) starts (nothing to do: complete)
StartForEach(path) ==
    LET cs == ForEachCalls(tasks[path].zoid, size)
    IN  tasks' = [tasks EXCEPT ![path].st = IF cs = << >> THEN "done" ELSE "run",
                               ![path].run = cs]

\* the base case of prec: a terminal zoid is processed sequentially
TaskBase ==
    /\ pc = "runpar"
    /\ \E path \in DOMAIN tasks :
          /\ Ready(path)
          /\ IsTerminal(tasks[path].zoid)
          /\ StartForEach(path)
    /\ UNCHANGED << input, todo, toff, steps, a0, a, b, pc, t, x, pend, layers,
                    li, rem, last, calls, nswap, oob >>

\* pick takes the sequential alternative
TaskSequential ==
    /\ pc = "runpar"
    /\ \E path \in DOMAIN tasks :
          /\ Ready(path)
          /\ ~ IsTerminal(tasks[path].zoid)
          /\ StartForEach(path)
    /\ UNCHANGED << input, todo, toff, steps, a0, a, b, pc, t, x, pend, layers,
                    li, rem, last, calls, nswap, oob >>

\* pick takes the step case: the zoid is split and rec called on the parts
TaskSplit ==
    /\ pc = "runpar"
    /\ \E path \in DOMAIN tasks :
          /\ Ready(path)
          /\ ~ IsTerminal(tasks[path].zoid)
          /\ Len(path) - 2 < MaxDepth
          /\ LET sc == StepCase(tasks[path].zoid)
             IN  tasks' =
                    [q \in DOMAIN tasks
                           \cup { Append(path, k) : k \in 1..Len(sc.kids) } |->
                       IF q = path THEN [tasks[path] EXCEPT !.st = "split"]
                       ELSE IF q \in DOMAIN tasks THEN tasks[q]
                       ELSE Task(sc.kids[q[Len(q)]], tasks[path].deps)]
    /\ UNCHANGED << input, todo, toff, steps, a0, a, b, pc, t, x, pend, layers,
                    li, rem, last, calls, nswap, oob >>

\* one call of even or odd by a running forEach
TaskStep ==
    /\ pc = "runpar"
    /\ \E path \in DOMAIN tasks :
          /\ tasks[path].st = "run"
          /\ LET cs == tasks[path].run
             IN  /\ SetBuffers(Callback(Head(cs), Buffers))
                 /\ tasks' = [tasks EXCEPT ![path].run = Tail(cs),
                                           ![path].st = IF Len(cs) = 1
                                                        THEN "done" ELSE "run"]
    /\ UNCHANGED << input, todo, toff, steps, a0, pc, t, x, pend, layers, li,
                    rem, last, nswap >>

\* the treeture of a step case completes once all its parts have
TaskJoin ==
    /\ pc = "runpar"
    /\ \E path \in DOMAIN tasks :
          /\ tasks[path].st = "split"
          /\ LET kids == { q \in DOMAIN tasks : Len(q) = Len(path) + 1
                                                /\ Parent(q) = path }
             IN  /\ \A q \in kids : tasks[q].st = "done"
                 /\ tasks' = [q \in DOMAIN tasks \ kids |->
                                IF q = path THEN [tasks[q] EXCEPT !.st = "done"]
                                ELSE tasks[q]]
    /\ UNCHANGED << input, todo, toff, steps, a0, a, b, pc, t, x, pend, layers,
                    li, rem, last, calls, nswap, oob >>

\* -- parallel_recursive: ExecutionPlan::runParallel ------------------------

\* a variant of the body of runParallel that creates the first task of a
\* layer without the dependency on last
RECURSIVE SpawnJobsNoLast(_, _, _)
SpawnJobsNoLast(cs, k, js) ==
    IF cs = << >> THEN js
    ELSE LET idx  == Head(cs)[1]
             deps == IF idx = 0 THEN {}
                     ELSE { << k, d >> : d \in Range(Head(cs)[2]) }
                            \cap DOMAIN js
         IN  SpawnJobsNoLast(Tail(cs), k,
                             js @@ (<< k, idx >> :> Task(layers[k][idx], deps)))

\* the jobs of layer k after the body of enumTaskGraph ran for the calls cs,
\* given the jobs js created so far: a predecessor whose job is not yet
\* created is an empty handle and holds nothing back
RECURSIVE SpawnJobs(_, _, _)
SpawnJobs(cs, k, js) ==
    IF cs = << >> THEN js
    ELSE LET idx  == Head(cs)[1]
             deps == IF idx = 0
                     THEN IF HandleDone(last) THEN {} ELSE { last }
                     ELSE { << k, d >> : d \in Range(Head(cs)[2]) }
                            \cap DOMAIN js
         IN  SpawnJobs(Tail(cs), k,
                       js @@ (<< k, idx >> :> Task(layers[k][idx], deps)))

\* one iteration of the loop over the layers: the tasks of the layer are
\* created, last becomes jobs.back()
\* a variant of the loop body of runParallel that keeps the handle of the
\* first task of the layer
SpawnLayerFirst ==
    /\ pc = "runpar"
    /\ li <= Len(layers)
    /\ tasks' = SpawnJobs(EnumTaskGraph(Len(size)), li, tasks)
    /\ last' = << li, 0 >>
    /\ li' = li + 1
    /\ UNCHANGED << input, todo, toff, steps, a0, a, b, pc, t, x, pend, layers,
                    rem, calls, nswap, oob >>

SpawnLayer ==
    /\ pc = "runpar"
    /\ li <= Len(layers)
    /\ tasks' = SpawnJobs(EnumTaskGraph(Len(size)), li, tasks)
    /\ last' = << li, NumTasks(Len(size)) - 1 >>
    /\ li' = li + 1
    /\ UNCHANGED << input, todo, toff, steps, a0, a, b, pc, t, x, pend, layers,
                    rem, calls, nswap, oob >>

\* runParallel(..).wait() returns; the result is moved to a
ParRecFinish ==
    /\ pc = "runpar"
    /\ li > Len(layers)
    /\ HandleDone(last)
    /\ MoveResultRec
    /\ pc' = "idle"
    /\ UNCHANGED << input, todo, toff, steps, a0, t, x, pend, layers, li, rem,
                    tasks, last, calls, oob >>

\* ------------------------------------------------------------------------
\* Specifications
\* ------------------------------------------------------------------------

Iterative ==
    \/ SeqIterStep \/ SeqIterFinish
    \/ CoarseSpawn \/ CoarseTask \/ CoarseJoin \/ CoarseFinish
    \/ FineSpawn \/ FineTask \/ FineMoveResult \/ FineWait

Create == CreateLayer \/ CreateDone

SeqRecursive == RunSequentialZoid \/ SeqRecFinish

ParRecursive ==
    \/ SpawnLayer \/ TaskBase \/ TaskSequential \/ TaskSplit \/ TaskStep
    \/ TaskJoin \/ ParRecFinish

Next == Stencil \/ Iterative \/ Create \/ SeqRecursive \/ ParRecursive

\* every strategy, one call on a 1-D container
Spec == Init /\ [][Next]_vars

\* every strategy, two calls in a row on a 1-D container
InitTwice ==
    InitWith(Strategies, Sizes1D, Updates,
             { p \in CallPlans : Len(p) = 2 /\ p[1] + p[2] <= MaxSteps })

SpecTwice == InitTwice /\ [][Next]_vars

\* one call with a negative, zero or positive number of steps
SignedPlans == { << n >> : n \in (0 - MaxSteps)..MaxSteps }

InitSigned == InitWith(Strategies, Sizes1D, Updates, SignedPlans)

\* every strategy, one call on a 1-D container, steps of either sign
SpecSigned == InitSigned /\ [][Next]_vars

\* the 2-D grids of the model
Sizes2D == { << 2, 3 >>, << 4, 4 >> }

\* the 1-D containers of the recursive strategies: up to extent 9, the
\* smallest a zoid of height 2 is split in space at
SizesRec == { << n >> : n \in 0..(MaxExtent + 2) } \cup { << 9 >> }

\* sequential_recursive on larger 1-D containers and on 2-D grids
InitSeq ==
    InitWith({ "sequential_recursive" }, SizesRec \cup Sizes2D, Updates,
             { p \in CallPlans : Len(p) = 1 })

NextSeq == Stencil \/ Create \/ SeqRecursive

SpecSeq == InitSeq /\ [][NextSeq]_vars

\* parallel_recursive on larger 1-D containers and on 2-D grids
InitPar ==
    /\ InitWith({ "parallel_recursive" },
                { s \in SizesRec : s[1] >= 2 } \cup Sizes2D, { "mix" },
                { p \in CallPlans : Len(p) = 1 /\ p[1] >= 1 })
    /\ orig = Ramp(size)

NextPar == Stencil \/ Create \/ ParRecursive

SpecPar == InitPar /\ [][NextPar]_vars

\* parallel_recursive with any number of steps, the empty plan included
InitRun ==
    /\ InitWith({ "parallel_recursive" },
                { s \in SizesRec : s[1] >= 2 } \cup Sizes2D, { "mix" },
                { p \in CallPlans : Len(p) = 1 })
    /\ orig = Ramp(size)

SpecRun == InitRun /\ [][NextPar]_vars

\* -- the plain scanner on its own ------------------------------------------

\* the base ranges [b, e) of a 1-D container of extent n the scanner is
\* applied to: 0 <= b < 2n, 0 <= e - b <= n
ScanInputs ==
    { [length |-> n, begin |-> bb, end |-> bb + w, out |-> << >>, done |-> FALSE] :
        n \in 1..(MaxExtent + 2), bb \in 0..(2 * MaxExtent + 3),
        w \in 0..(MaxExtent + 2) }

\* no stencil call is made here: the scanner is applied to one range
InitScan ==
    /\ InitMain({ "sequential_recursive" }, { << 0 >> }, { "shift" }, { << >> })
    /\ probe \in { i \in ScanInputs : i.begin < 2 * i.length
                                      /\ i.end - i.begin <= i.length }

\* the positions forEach hands to the callback for the zoid of height 1
\* with base [begin, end) and slope 1, in order
ProbeCalls(i) ==
    LET cs == ForEachCalls(Zoid(<< [begin |-> i.begin, end |-> i.end] >>,
                                << 1 >>, 0, 1), << i.length >>)
    IN  [k \in 1..Len(cs) |-> cs[k][2]]

\* Zoid::forEach on that zoid: one run of plain_scanner<0> over [begin, end)
ScanApply ==
    /\ probe # << >>
    /\ ~ probe.done
    /\ probe' = [probe EXCEPT
                   !.out  = ProbeCalls(probe),
                   !.done = TRUE]
    /\ UNCHANGED << impl, size, upd, orig, todo, toff, steps, a0, a, b, pc, t,
                    x, pend, recvars, calls, nswap >>

SpecScan == InitScan /\ [][ScanApply]_vars

\* -- the task graph enumerator on its own -------------------------------------

\* no stencil call is made here: enumTaskGraph is applied for Dims = dims
\* with the body of runParallel, the handle last being complete or not
InitEnum ==
    /\ InitMain({ "parallel_recursive" }, { << 0 >> }, { "shift" }, { << >> })
    /\ probe \in { [dims |-> n, lastDone |-> ld, out |-> << >>, jobs |-> << >>,
                    done |-> FALSE] : n \in 1..MaxDims, ld \in BOOLEAN }

\* the handles the body of runParallel makes job idx wait for, given the
\* predecessors deps it is handed and the jobs created so far
BodyWaits(idx, deps, jobs, lastDone) ==
    IF idx = 0 THEN (IF lastDone THEN { } ELSE { "last" })
    ELSE Range(deps) \cap DOMAIN jobs

\* task_graph_enumerator<dims>()(body) makes its next call of body, which
\* creates jobs[idx] and is recorded with the predecessors it was handed
EnumCall ==
    /\ ~ probe.done
    /\ Len(probe.out) < Len(EnumTaskGraph(probe.dims))
    /\ LET c == EnumTaskGraph(probe.dims)[Len(probe.out) + 1]
       IN  probe' = [probe EXCEPT
                       !.out  = Append(@, c),
                       !.jobs = @ @@ (c[1] :> BodyWaits(c[1], c[2], @,
                                                       probe.lastDone))]
    /\ UNCHANGED << impl, size, upd, orig, todo, toff, steps, a0, a, b, pc, t,
                    x, pend, recvars, calls, nswap >>

\* the enumerator returns
EnumReturn ==
    /\ ~ probe.done
    /\ Len(probe.out) = Len(EnumTaskGraph(probe.dims))
    /\ probe' = [probe EXCEPT !.done = TRUE]
    /\ UNCHANGED << impl, size, upd, orig, todo, toff, steps, a0, a, b, pc, t,
                    x, pend, recvars, calls, nswap >>

NextEnum == EnumCall \/ EnumReturn

SpecEnum == InitEnum /\ [][NextEnum]_vars

\* -- the splits of a zoid on their own ---------------------------------------------

\* the ranges [begin, end) a dimension of a zoid is given
ZoidRanges ==
    { [begin |-> bb, end |-> bb + w] :
        bb \in 0..MaxExtent, w \in 0..(2 * MaxExtent + 1) }

\* a few of them, for the zoids of two dimensions
ZoidRanges2D ==
    { r \in ZoidRanges : /\ r.begin \in { 0, 1 }
                         /\ r.end - r.begin \in { 0, 3, MaxExtent + 1,
                                                  2 * MaxExtent + 1 } }

\* the zoids the splits are applied to: any direction of the slopes, heights
\* 0..MaxSteps
ZoidInputs ==
    { Zoid(<< r >>, << s >>, tb, tb + h) :
        r \in ZoidRanges, s \in { -1, 1 }, tb \in 0..1, h \in 0..MaxSteps }
    \cup
    { Zoid(<< r1, r2 >>, << s1, s2 >>, tb, tb + h) :
        r1 \in ZoidRanges2D, r2 \in ZoidRanges2D, s1 \in { -1, 1 },
        s2 \in { -1, 1 }, tb \in 0..1, h \in 0..MaxSteps }

\* no stencil call is made here: one zoid is split
InitSplit ==
    /\ InitMain({ "parallel_recursive" }, { << 0 >> }, { "shift" }, { << >> })
    /\ probe \in { [zoid |-> z, via |-> "none", parts |-> << >>] :
                    z \in ZoidInputs }

\* zoid.splitTime()
SplitTimeApply ==
    /\ probe.via = "none"
    /\ probe' = [probe EXCEPT
                   !.via   = "time",
                   !.parts = << SplitTime(probe.zoid).bottom,
                                SplitTime(probe.zoid).top >>]
    /\ UNCHANGED << impl, size, upd, orig, todo, toff, steps, a0, a, b, pc, t,
                    x, pend, recvars, calls, nswap >>

\* zoid.splitSpace(), which asserts isSpaceSplitable()
SplitSpaceApply ==
    /\ probe.via = "none"
    /\ IsSpaceSplitable(probe.zoid)
    /\ probe' = [probe EXCEPT
                   !.via   = "space",
                   !.parts = << SplitSpace(probe.zoid).l,
                                SplitSpace(probe.zoid).c,
                                SplitSpace(probe.zoid).r >>]
    /\ UNCHANGED << impl, size, upd, orig, todo, toff, steps, a0, a, b, pc, t,
                    x, pend, recvars, calls, nswap >>

NextSplit == SplitTimeApply \/ SplitSpaceApply

SpecSplit == InitSplit /\ [][NextSplit]_vars

\* ------------------------------------------------------------------------
\* Properties
\* ------------------------------------------------------------------------

\* every call of the run has been made and has completed
Done == pc = "idle" /\ todo = << >>

\* one stencil sweep A'[p] = f(tg, p, A)
RefSweep(V, tg) == [p \in Cells(size) |-> Update(upd, tg, p, V, size)]

\* the function f as a table: each of its values is computed once
Tabulate(f) == f @@ f

\* the sweeps for the times tg, tg+1, .., tg+n-1 applied in that order to V
RECURSIVE RefRun(_, _, _)
RefRun(V, tg, n) ==
    IF n <= 0 THEN V ELSE RefRun(Tabulate(RefSweep(V, tg)), tg + 1, n - 1)

\* the body of sequential_iterative::process as a function: the contents of
\* a when the loop over t, from tt on, and the final swap are done
RECURSIVE SeqIterResult(_, _, _, _)
SeqIterResult(A, B, ptr, tt) ==
    IF tt < steps
    THEN IF ptr = "a"
         THEN SeqIterResult(A, [p \in Cells(size) |->
                                   Update(upd, tt + toff, p, A, size)],
                            "b", tt + 1)
         ELSE SeqIterResult([p \in Cells(size) |->
                                Update(upd, tt + toff, p, B, size)], B,
                            "a", tt + 1)
    ELSE IF ptr # "a" THEN B ELSE A

\* C1: whatever the strategy and the interleaving of its tasks, a completed
\* call leaves in a what sequential_iterative leaves there for the same
\* container, steps and update, so that all five strategies agree
C1_AllStrategiesAgree ==
    Done => a = SeqIterResult(a0, Fresh(size), "a", 0)

\* C2: once the call has completed, a holds the state at time steps: the
\* sweeps for t = 0, .., steps-1 applied in order to the initial container
C2_ResultInA ==
    Done => a = RefRun(a0, toff, steps)

\* -- parallel_recursive: what the running tasks read and write ---------------

\* the buffer update(t, p, ..) reads at step tt: a at even steps, b at odd
ReadBuffer(tt) == IF tt % 2 = 0 THEN a ELSE b

\* the calls a running forEach has made so far
Executed(path) ==
    LET all == ForEachCalls(tasks[path].zoid, size)
    IN  { all[k] : k \in 1..(Len(all) - Len(tasks[path].run)) }

\* the pairs << t, p >> a task computes
WritePairs(z) == Range(ForEachCalls(z, size))

\* the buffer cells << buffer, cell >> a task writes: b (1) at even steps,
\* a (0) at odd steps
WriteCells(z) == { << (c[1] + 1) % 2, c[2] >> : c \in WritePairs(z) }

\* the buffer cells a task reads
ReadCells(z) ==
    UNION { { << c[1] % 2, q >> : q \in Neighbours(c[2], size) } :
              c \in WritePairs(z) }

\* the task is executing or may start at any moment
Active(path) == tasks[path].st = "run" \/ Ready(path)

C4_NoConflict ==
    pc = "runpar" =>
      \A p1, p2 \in DOMAIN tasks :
         (p1 # p2 /\ Active(p1) /\ Active(p2)) =>
            /\ WritePairs(tasks[p1].zoid) \cap WritePairs(tasks[p2].zoid) = {}
            /\ ReadCells(tasks[p1].zoid) \cap WriteCells(tasks[p2].zoid) = {}

\* two fragments run at the same time, one in the middle of step 0 and the
\* other in the middle of step 1
C4_Witness ==
    /\ pc = "runpar"
    /\ \E p1, p2 \in DOMAIN tasks :
          /\ p1 # p2
          /\ Len(p1) > 2 /\ Len(p2) > 2
          /\ tasks[p1].st = "run" /\ tasks[p2].st = "run"
          /\ Executed(p1) # {} /\ Executed(p2) # {}
          /\ Head(tasks[p1].run)[1] = 0
          /\ Head(tasks[p2].run)[1] = 1

\* -- the plan -----------------------------------------------------------------

\* every pair (t, p) with 0 <= t < steps and p a cell of the grid, once
AllPairs == SetToBag({ << tt, p >> : tt \in 0..(steps - 1), p \in Cells(size) })

\* the pairs forEach visits on the zoids of a layer
LayerPairs(layer) == UNION { WritePairs(layer[m]) : m \in DOMAIN layer }

\* C5: forEach on all zoids of all layers of the plan of create invokes the
\* callback exactly once for every pair (t, p), 0 <= t < steps, p a cell, and
\* for no other pair: when runSequential is through, the bag of the calls is
\* that set, and while create still has a time t < steps to cover, the layer
\* it appends covers the cells at time t
C5_PlanCoverage ==
    /\ Done => calls = AllPairs
    /\ (pc = "create" /\ t < steps) =>
          \A p \in Cells(size) :
             << t, p >> \in LayerPairs(PlanLayer(BaseFull(size), t, steps))

\* -- the recursive split --------------------------------------------------------

\* (height, max_width) of y is lexicographically below that of z
LexLess(y, z) ==
    \/ GetHeight(y) < GetHeight(z)
    \/ /\ GetHeight(y) = GetHeight(z)
       /\ GetMaximumWidth(y.base) < GetMaximumWidth(z.base)

\* C6: every sub-zoid the step case of pforEach creates is strictly smaller
\* than the zoid it was split from, in the lexicographic order on
\* (height, max_width)
C6_SplitDecreases ==
    \A path \in DOMAIN tasks :
       Len(path) > 2 => LexLess(tasks[path].zoid, tasks[Parent(path)].zoid)

\* -- the scanner ----------------------------------------------------------------

\* C7: on a 1-D container of extent L the scan of [b, e), 0 <= b < 2L,
\* 0 <= e-b <= L, calls back exactly once for each cell x mod L, b <= x < e,
\* and for no other cell
C7_ScanVisitsOnce ==
    probe.done =>
       /\ Len(probe.out) = probe.end - probe.begin
       /\ Range(probe.out)
             = { << xx % probe.length >> : xx \in probe.begin..(probe.end - 1) }

\* the zoid of height 1 with base [L-2, L+3) for L = 5 visited 3, 4, 0, 1, 2
C7_Witness ==
    /\ probe.done
    /\ probe.length = 5 /\ probe.begin = 3 /\ probe.end = 8
    /\ probe.out = << << 3 >>, << 4 >>, << 0 >>, << 1 >>, << 2 >> >>

\* -- zero steps -----------------------------------------------------------------

\* C8: stencil(A, 0, f) leaves every cell of a unchanged, invokes no update
\* and swaps no buffers, and it completes: until the call has returned, a
\* step of it is enabled
C8_ZeroStepsNoOp ==
    (steps = 0 /\ (todo = << 0 >> \/ todo = << >>)) =>
       /\ a = orig
       /\ calls = EmptyBag
       /\ nswap = 0
       /\ oob = FALSE
       /\ Done \/ ENABLED Next

\* a call of parallel_recursive with zero steps on a non-empty container has
\* returned
C8_Witness ==
    /\ Done /\ steps = 0 /\ toff = 0
    /\ impl = "parallel_recursive"
    /\ size[1] = MaxExtent
    /\ li = 1 /\ layers = << >>

\* -- composition ----------------------------------------------------------------

\* C9: stencil(A, T1, f) followed by stencil(A, T2, f'), f'(t, ..) =
\* f(t + T1, ..), leaves in a what stencil(A, T1 + T2, f) is to leave there:
\* the state at time T1 + T2 of the container before the first call
C9_Composition ==
    Done => a = RefRun(orig, 0, toff + steps)

\* -- shift ------------------------------------------------------------------------

\* C10: with the update V[(p-1) mod L] on a 1-D container of extent L, a
\* completed call of steps steps leaves a[p] = A0[(p - steps) mod L]
C10_Shift ==
    (Done /\ upd = "shift") =>
       \A p \in Cells(size) : a[p] = orig[<< (p[1] - steps) % size[1] >>]

\* -- degenerate inputs ----------------------------------------------------------

\* C11: on a container with an extent of 0 a call invokes no update, leaves a
\* as it was and terminates: until it has returned a step of it is enabled,
\* and every pass of the loop of create, which appends one layer, advances
\* the time t0 by a positive height
C11_ZeroExtentNoOp ==
    (\E i \in 1..Len(size) : size[i] = 0) =>
       /\ calls = EmptyBag
       /\ a = orig
       /\ Done \/ ENABLED Next
       /\ \A k \in 1..Len(layers) : GetHeight(layers[k][0]) > 0

\* C12: a call with a negative number of steps invokes no update, swaps no
\* buffers and leaves every cell of a unchanged
C12_NegativeStepsNoOp ==
    steps < 0 =>
       /\ calls = EmptyBag
       /\ nswap = 0
       /\ a = orig

\* -- the layers of the plan -----------------------------------------------------

\* the smallest extent of the container
MinExtent == CHOOSE w \in Range(size) : \A i \in 1..Len(size) : w <= size[i]

\* mid_i = extent_i - (extent_i - min_width) / 2
MidOf(i) == size[i] - ((size[i] - MinExtent) \div 2)

\* zoid z is the one of mask m in the layer number k (from 1) of height h
IsPlanZoid(z, m, k, h) ==
    /\ z.t_begin = (k - 1) * h
    /\ z.t_end = Min(k * h, steps)
    /\ \A i \in 1..Len(size) :
          IF Bit(m, i - 1) = 1
          THEN z.base[i] = [begin |-> MidOf(i), end |-> size[i]]
               /\ z.slopes[i] = -1
          ELSE z.base[i] = [begin |-> 0, end |-> MidOf(i)]
               /\ z.slopes[i] = 1

\* C13: create terminates and its layers tile [0, steps): layer k is made of
\* the 2^N zoids of the claimed shape over [k*height, min((k+1)*height,
\* steps)), height = min_width / 2, every layer spans a non-empty interval
\* that starts below steps (so that there are at most steps passes), and
\* when create has returned the last layer ends at steps
C13_CreateTiles ==
    LET h == MinExtent \div 2
    IN  /\ \A k \in 1..Len(layers) :
              /\ DOMAIN layers[k] = 0..(2 ^ Len(size) - 1)
              /\ \A m \in DOMAIN layers[k] : IsPlanZoid(layers[k][m], m, k, h)
              /\ (k - 1) * h < Min(k * h, steps)
        /\ pc \in { "runseq", "runpar" } =>
              IF steps <= 0 THEN layers = << >>
              ELSE layers # << >> /\ layers[Len(layers)][0].t_end = steps

\* -- the task graph enumerator --------------------------------------------------

\* the bits set in m
SetBits(m) == { k \in 0..(MaxDims + 1) : (m \div (2 ^ k)) % 2 = 1 }

\* C14: the enumerator calls its body once for each of the 2^N indices, in
\* popcount-ascending order, with exactly the predecessors m minus one of its
\* set bits, each once, and every predecessor was enumerated before
C14_EnumTaskGraph ==
    LET out == probe.out
        n   == probe.dims
    IN  /\ \A j, k \in 1..Len(out) : j < k =>
              /\ out[j][1] # out[k][1]
              /\ Cardinality(SetBits(out[j][1])) <= Cardinality(SetBits(out[k][1]))
        /\ \A k \in 1..Len(out) :
              LET m == out[k][1]
                  deps == out[k][2]
              IN  /\ m \in 0..(2 ^ n - 1)
                  /\ Range(deps) = { m - 2 ^ bb : bb \in SetBits(m) }
                  /\ Len(deps) = Cardinality(SetBits(m))
                  /\ \A d \in Range(deps) : \E j \in 1..(k - 1) : out[j][1] = d
                  /\ m # 0 => probe.jobs[m] = Range(deps)
        /\ probe.done =>
              { out[k][1] : k \in 1..Len(out) } = 0..(2 ^ n - 1)

\* the enumeration for three dimensions is complete; its last call was for
\* index 7 with the predecessors 3, 5, 6
C14_Witness ==
    /\ probe.done
    /\ probe.dims = 3
    /\ Len(probe.out) = 8
    /\ probe.out[8] = << 7, << 3, 5, 6 >> >>
    /\ probe.out[4][1] = 4

\* -- runParallel: the layers -----------------------------------------------------

\* the task has started: it was split, or its forEach runs or is through
Started(path) == tasks[path].st \in { "split", "run", "done" }

\* the last task of layer k: the one of mask 2^N - 1
LastOf(k) == << k, 2 ^ Len(size) - 1 >>

\* C15: task 0 of a layer after the first waits for the last task of the
\* layer before it (or was created when that task was already complete), and
\* no task of a layer, fragments included, has started unless every task of
\* the layer before it is complete
C15_LayerOrder ==
    pc = "runpar" =>
      \A path \in DOMAIN tasks :
         path[1] >= 2 =>
            /\ (Len(path) = 2 /\ path[2] = 0) =>
                  \/ tasks[path].deps = { LastOf(path[1] - 1) }
                  \/ tasks[path].deps = {}
                     /\ tasks[LastOf(path[1] - 1)].st = "done"
            /\ Started(path) =>
                  \A m \in 0..(2 ^ Len(size) - 1) :
                     tasks[<< path[1] - 1, m >>].st = "done"

\* a fragment of a task of the second layer runs, and task 0 of that layer
\* was created while the last task of the first layer was not yet complete
C15_Witness ==
    /\ pc = "runpar"
    /\ << 2, 0 >> \in DOMAIN tasks
    /\ tasks[<< 2, 0 >>].deps = { LastOf(1) }
    /\ \E path \in DOMAIN tasks :
          path[1] = 2 /\ Len(path) > 2 /\ tasks[path].st = "run"

\* the pairs << t, p >> of the layers 1..k of the plan
PairsUpTo(k) == UNION { LayerPairs(layers[j]) : j \in 1..k }

\* C16: the handle runParallel returns is the task of mask 2^N - 1 of the
\* last layer, or a completed handle when the plan has no layer; when the last
\* task of a layer is complete, every task of that layer and of the layers
\* before it is complete and has left no fragment, and when the returned handle
\* is complete every pair (t, p), 0 <= t < steps, has been computed
C16_ReturnedHandle ==
    pc = "runpar" =>
      /\ li > Len(layers) =>
            /\ last = IF layers = << >> THEN << >> ELSE LastOf(Len(layers))
            /\ layers = << >> => HandleDone(last)
            /\ HandleDone(last) =>
                  \A c \in BagToSet(AllPairs) : BagIn(c, calls)
      /\ \A k \in 1..Len(layers) :
            (LastOf(k) \in DOMAIN tasks /\ HandleDone(LastOf(k))) =>
               /\ \A j \in 1..k, m \in 0..(2 ^ Len(size) - 1) :
                     << j, m >> \in DOMAIN tasks
               /\ \A path \in DOMAIN tasks :
                     path[1] <= k => Len(path) = 2 /\ tasks[path].st = "done"
               /\ \A c \in PairsUpTo(k) : BagIn(c, calls)

\* runParallel has spawned both layers of a 2-D plan and the handle it
\* returned is complete
C16_Witness ==
    /\ pc = "runpar"
    /\ li > Len(layers)
    /\ Len(layers) = 2
    /\ Len(size) = 2
    /\ last = LastOf(2)
    /\ HandleDone(last)

\* -- pforEach: the order of the fragments ------------------------------------------

\* the tasks whose zoid the step case has split
SplitTasks == { path \in DOMAIN tasks : tasks[path].st = "split" }

\* the fragment of a split task is running: started and not yet complete
Running(path) == Started(path) /\ tasks[path].st # "done"

\* C17: of the fragments of a time split, top does not start before bottom
\* is complete; of an opening space split, l and r do not start before c is
\* complete; of a closing space split, c does not start before l and r are
\* complete; two fragments of one split that run at the same time are l and r
C17_StepOrder ==
    \A path \in SplitTasks :
       LET z    == tasks[path].zoid
           kid(k) == Append(path, k)
       IN  IF ~ IsSpaceSplitable(z)
           THEN /\ tasks[kid(1)].zoid = SplitTime(z).bottom
                /\ tasks[kid(2)].zoid = SplitTime(z).top
                /\ Started(kid(2)) => tasks[kid(1)].st = "done"
           ELSE /\ tasks[kid(1)].zoid = SplitSpace(z).l
                /\ tasks[kid(2)].zoid = SplitSpace(z).c
                /\ tasks[kid(3)].zoid = SplitSpace(z).r
                /\ IF SplitSpace(z).opening
                   THEN (Started(kid(1)) \/ Started(kid(3)))
                           => tasks[kid(2)].st = "done"
                   ELSE Started(kid(2))
                           => tasks[kid(1)].st = "done" /\ tasks[kid(3)].st = "done"
                /\ Running(kid(2)) => ~ Running(kid(1)) /\ ~ Running(kid(3))

\* l and r of a closing space split run at the same time, c has not started
C17_Witness ==
    \E path \in SplitTasks :
       /\ IsSpaceSplitable(tasks[path].zoid)
       /\ ~ SplitSpace(tasks[path].zoid).opening
       /\ tasks[Append(path, 1)].st = "run"
       /\ tasks[Append(path, 3)].st = "run"
       /\ tasks[Append(path, 2)].st = "new"

\* -- the splits of a zoid --------------------------------------------------------

\* the points of the box with the given lower and upper (exclusive) corners,
\* first n dimensions
RECURSIVE BoxUpTo(_, _, _)
BoxUpTo(lo, hi, n) ==
    IF n = 0 THEN { << >> }
    ELSE { Append(p, i) : p \in BoxUpTo(lo, hi, n - 1),
                          i \in lo[n]..(hi[n] - 1) }

\* the space-time cells << t, p >> of a zoid: at time t the range of
\* dimension i is the base moved inwards by slopes[i] * (t - t_begin) at both
\* ends
ZoidCells(z) ==
    UNION { { << tt, p >> :
                p \in BoxUpTo([i \in 1..Len(z.base) |->
                                  z.base[i].begin + z.slopes[i] * (tt - z.t_begin)],
                              [i \in 1..Len(z.base) |->
                                  z.base[i].end - z.slopes[i] * (tt - z.t_begin)],
                              Len(z.base)) } :
            tt \in z.t_begin..(z.t_end - 1) }

\* the cells of the zoids of zs are pairwise disjoint and make up the cells of z
Partition(zs, z) ==
    /\ \A i, j \in 1..Len(zs) :
          i < j => ZoidCells(zs[i]) \cap ZoidCells(zs[j]) = {}
    /\ UNION { ZoidCells(zs[i]) : i \in 1..Len(zs) } = ZoidCells(z)

\* C18: splitTime with split = height / 2 returns a bottom over
\* [t_begin, t_begin + split) with the base and slopes of the zoid and a top
\* over [t_begin + split, t_end) with the same slopes and the base moved
\* inwards by slopes[i] * split at both ends of every dimension i; the cells
\* of bottom and top are disjoint and together they are the cells of the zoid
C18_SplitTime ==
    probe.via = "time" =>
       LET z      == probe.zoid
           bottom == probe.parts[1]
           top    == probe.parts[2]
           split  == (z.t_end - z.t_begin) \div 2
       IN  /\ bottom.t_begin = z.t_begin /\ bottom.t_end = z.t_begin + split
           /\ bottom.base = z.base /\ bottom.slopes = z.slopes
           /\ top.t_begin = z.t_begin + split /\ top.t_end = z.t_end
           /\ top.slopes = z.slopes
           /\ DOMAIN top.base = DOMAIN z.base
           /\ \A i \in DOMAIN z.base :
                 /\ top.base[i].begin = z.base[i].begin + z.slopes[i] * split
                 /\ top.base[i].end = z.base[i].end - z.slopes[i] * split
           /\ Partition(probe.parts, z)

\* a 2-D zoid of height 3 with one opening and one closing dimension was split
\* in time, and both halves have cells
C18_Witness ==
    /\ probe.via = "time"
    /\ Len(probe.zoid.base) = 2
    /\ probe.zoid.slopes = << -1, 1 >>
    /\ GetHeight(probe.zoid) = 3
    /\ ZoidCells(probe.parts[1]) # {}
    /\ ZoidCells(probe.parts[2]) # {}

\* the first dimension whose shadow is the widest
Widest(z) ==
    CHOOSE d \in DOMAIN z.base :
       /\ \A i \in DOMAIN z.base : GetWidth(z, i) <= GetWidth(z, d)
       /\ \A i \in 1..(d - 1) : GetWidth(z, i) < GetWidth(z, d)

\* C19: splitSpace of a space-splittable zoid splits the dimension d of the
\* widest shadow at center = (b + e) / 2 into l = [b, left), c = [left, right)
\* and r = [right, e), with left = center - height and right = center + height
\* for slope -1 and left = right = center for slope +1; c has its slope in d
\* negated, every other range and slope and the time interval are those of
\* the zoid; the cells of l, c and r are pairwise disjoint and together they
\* are the cells of the zoid
C19_SplitSpace ==
    probe.via = "space" =>
       LET z      == probe.zoid
           l      == probe.parts[1]
           c      == probe.parts[2]
           r      == probe.parts[3]
           d      == Widest(z)
           h      == z.t_end - z.t_begin
           center == (z.base[d].begin + z.base[d].end) \div 2
           left   == IF z.slopes[d] = -1 THEN center - h ELSE center
           right  == IF z.slopes[d] = -1 THEN center + h ELSE center
       IN  /\ l.base[d] = [begin |-> z.base[d].begin, end |-> left]
           /\ c.base[d] = [begin |-> left, end |-> right]
           /\ r.base[d] = [begin |-> right, end |-> z.base[d].end]
           /\ l.slopes = z.slopes /\ r.slopes = z.slopes
           /\ c.slopes[d] = 0 - z.slopes[d]
           /\ \A k \in 1..3 :
                 /\ probe.parts[k].t_begin = z.t_begin
                 /\ probe.parts[k].t_end = z.t_end
                 /\ DOMAIN probe.parts[k].base = DOMAIN z.base
                 /\ DOMAIN probe.parts[k].slopes = DOMAIN z.slopes
                 /\ \A i \in DOMAIN z.base \ { d } :
                       /\ probe.parts[k].base[i] = z.base[i]
                       /\ probe.parts[k].slopes[i] = z.slopes[i]
           /\ Partition(probe.parts, z)

\* a 2-D zoid of height 2 was split in its second, opening dimension, and
\* each of the three parts has cells
C19_Witness ==
    /\ probe.via = "space"
    /\ Len(probe.zoid.base) = 2
    /\ Widest(probe.zoid) = 2
    /\ probe.zoid.slopes[2] = -1
    /\ GetHeight(probe.zoid) = 2
    /\ \A k \in 1..3 : ZoidCells(probe.parts[k]) # {}

\* -- pforEach against forEach ------------------------------------------------------

\* the bag of the elements of a sequence
SeqToBag(q) ==
    [e \in Range(q) |-> Cardinality({ k \in DOMAIN q : q[k] = e })]

\* the fragments of a split task
Kids(path) ==
    { q \in DOMAIN tasks : Len(q) = Len(path) + 1 /\ Parent(q) = path }

\* the calls a task and its fragments have made so far, where a complete task
\* counts for the calls of forEach on its zoid
RECURSIVE CallsOf(_)
CallsOf(path) ==
    LET all == ForEachCalls(tasks[path].zoid, size)
    IN  CASE tasks[path].st = "done"  -> all
          [] tasks[path].st = "run"   ->
                SubSeq(all, 1, Len(all) - Len(tasks[path].run))
          [] tasks[path].st = "split" ->
                Flatten([k \in 1..Cardinality(Kids(path)) |->
                            CallsOf(Append(path, k))])
          [] OTHER -> << >>

\* the calls of all the tasks runParallel has created
CallsOfAll ==
    Flatten([k \in 1..(li - 1) |->
        Flatten([m \in 1..(2 ^ Len(size)) |-> CallsOf(<< k, m - 1 >>)])])

\* the step made the call c of even (t even: b[p] from a) or odd (t odd:
\* a[p] from b)
CallOfParity(c) ==
    IF c[1] % 2 = 0
    THEN /\ a' = a
         /\ InRange(c[2], size) =>
               b' = [b EXCEPT ![c[2]] = Update(upd, c[1] + toff, c[2], a, size)]
    ELSE /\ b' = b
         /\ InRange(c[2], size) =>
               a' = [a EXCEPT ![c[2]] = Update(upd, c[1] + toff, c[2], b, size)]

\* the calls are those of forEach: a task that is complete, whatever pick
\* chose in it and in its fragments, accounts for the calls of forEach on its
\* zoid, each of them made once
SameCalls ==
    pc = "runpar" =>
       /\ calls = SeqToBag(CallsOfAll)
       /\ \A path \in DOMAIN tasks :
             tasks[path].st = "done" =>
                LET all == ForEachCalls(tasks[path].zoid, size)
                IN  \A i, j \in DOMAIN all : all[i] = all[j] => i = j

\* C20: whatever pick chooses at each node, a pforEach that completes has
\* called even and odd for the same bag of pairs (t, p) as forEach on the same
\* zoid, each pair once, and with even for even t and odd for odd t
C20_PforEachRefinesForEach ==
    /\ [] SameCalls
    /\ [][ pc = "runpar" =>
             \A c \in BagToSet(calls') :
                CopiesIn(c, calls') > CopiesIn(c, calls) => CallOfParity(c) ]_vars

\* all the fragments of a fragment of a split zoid are complete: the step
\* case was picked twice in a row and the calls have been made
C20_Witness ==
    /\ pc = "runpar"
    /\ \E path \in SplitTasks :
          /\ Len(path) >= 3
          /\ \A q \in Kids(path) : tasks[q].st = "done"
          /\ \E q \in Kids(path) : ForEachCalls(tasks[q].zoid, size) # << >>
    /\ \E path \in DOMAIN tasks : Len(path) = 2 /\ tasks[path].st = "done"

\* -- runSequential: the order of the zoids -----------------------------------------

\* the masks of the layer runSequential is at whose forEach is through
RanMasks == (0..(2 ^ Len(size) - 1)) \ rem

\* the calls of forEach on the zoids of the masks ms of layer k, in some order
RECURSIVE CallsOfMasks(_, _)
CallsOfMasks(k, ms) ==
    IF ms = {} THEN << >>
    ELSE LET m == CHOOSE e \in ms : TRUE
         IN  ForEachCalls(layers[k][m], size) \o CallsOfMasks(k, ms \ { m })

\* C21: runSequential takes the layers in the order of their construction
\* and the zoids of a layer in an order of non-decreasing popcount of the
\* mask: the calls made so far are those of all the zoids of the layers before
\* the current one and of the zoids of the current layer that have run, no
\* zoid that has run has more 1-bits than one still to run, and with a zoid
\* that has run every zoid whose mask is a proper subset of its mask has run
C21_RunSequentialOrder ==
    pc = "runseq" =>
       /\ li \in 1..(Len(layers) + 1)
       /\ rem \subseteq 0..(2 ^ Len(size) - 1)
       /\ \A m \in RanMasks, k \in rem : PopCount(m) <= PopCount(k)
       /\ \A m \in RanMasks, k \in 0..(2 ^ Len(size) - 1) :
             (k # m /\ SetBits(k) \subseteq SetBits(m)) => k \in RanMasks
       /\ calls = SeqToBag(
             Flatten([k \in 1..(li - 1) |->
                         CallsOfMasks(k, 0..(2 ^ Len(size) - 1))])
             \o (IF li <= Len(layers) THEN CallsOfMasks(li, RanMasks)
                 ELSE << >>))

\* in the second layer of a 2-D plan the zoids of the masks 0, 1 and 2 have
\* run and the one of mask 3 is next
C21_Witness ==
    /\ pc = "runseq"
    /\ Len(size) = 2
    /\ li = 2
    /\ li <= Len(layers)
    /\ rem = { 3 }
    /\ calls # EmptyBag

\* -- fine_grained_iterative: the tasks ------------------------------------------------

\* the task w = << t, i >> has yet to complete and the tasks of step t - 1 of
\* the neighbourhood of i are complete: it may be running
FineReady(w) ==
    /\ w \in pend
    /\ \A j \in Neighbours(w[2], size) : << w[1] - 1, j >> \notin pend

\* the buffer cell task << t, i >> writes: cell i of b at even t, of a at
\* odd t
FineWrite(w) == << IF w[1] % 2 = 0 THEN "b" ELSE "a", w[2] >>

\* the buffer cells task << t, i >> reads: the neighbourhood of i in the
\* other buffer
FineReads(w) ==
    { << IF w[1] % 2 = 0 THEN "a" ELSE "b", j >> : j \in Neighbours(w[2], size) }

\* no two tasks that may run at the same time touch a cell one of them
\* writes, and no task that may run writes a cell a task of the step before
\* has yet to read
FineNoConflict ==
    impl = "fine_grained_iterative" =>
       /\ \A w1, w2 \in pend :
             (w1 # w2 /\ FineReady(w1) /\ FineReady(w2)) =>
                /\ FineWrite(w1) \notin FineReads(w2)
                /\ FineWrite(w1) # FineWrite(w2)
       /\ \A w \in pend :
             FineReady(w) =>
                \A v \in pend : v[1] = w[1] - 1 => FineWrite(w) \notin FineReads(v)

\* C22: in fine_grained_iterative the task of cell i at step t starts only
\* when the tasks of step t - 1 of the cells i - 1, i, i + 1 are complete,
\* and with that no task reads a cell another task may write at the same time
\* and no task overwrites a cell a task of the step before has yet to read
C22_FineGrainedDependencies ==
    /\ [] FineNoConflict
    /\ [][ impl = "fine_grained_iterative" =>
             \A w \in pend :
                w \notin pend' =>
                   \A j \in Neighbours(w[2], size) : << w[1] - 1, j >> \notin pend ]_vars

\* tasks of two different steps may run at the same time
C22_Witness ==
    /\ impl = "fine_grained_iterative"
    /\ \E w1, w2 \in pend :
          /\ w1[1] < w2[1]
          /\ FineReady(w1)
          /\ FineReady(w2)
    /\ calls # EmptyBag

\* C23: in fine_grained_iterative the contents of a and b are exchanged
\* only when every update task of every step is complete: once the exchange
\* was made no task is pending or running
C23_SwapAfterTasks ==
    (impl = "fine_grained_iterative" /\ nswap > 0) => pend = {}

\* -- the positions handed to the callbacks -------------------------------------------

\* every position forEach on the zoid hands to even or odd is a cell of the
\* container
InBounds(z) ==
    LET cs == ForEachCalls(z, size)
    IN  \A k \in DOMAIN cs : InRange(cs[k][2], size)

\* C24: on a grid with all extents >= 2, every position the zoids of the
\* plan and the fragments splitTime and splitSpace make of them hand to even
\* and odd lies within the container in every dimension: no call made was out
\* of bounds, and none of the zoids at hand has a position out of bounds
C24_PositionsInBounds ==
    (\A i \in 1..Len(size) : size[i] >= 2) =>
       /\ ~ oob
       /\ \A c \in BagToSet(calls) : InRange(c[2], size)
       /\ \A k \in 1..Len(layers) : \A m \in DOMAIN layers[k] : InBounds(layers[k][m])
       /\ pc = "runpar" => \A path \in DOMAIN tasks : InBounds(tasks[path].zoid)

\* a fragment whose base goes beyond the extent runs: the scanner has wrapped
\* its positions around
C24_Witness ==
    /\ pc = "runpar"
    /\ \E path \in DOMAIN tasks :
          /\ Len(path) > 2
          /\ tasks[path].st = "run"
          /\ tasks[path].zoid.base[1].end > size[1]
          /\ Len(tasks[path].run) < Len(ForEachCalls(tasks[path].zoid, size))

\* -- splitSpace: the split dimension --------------------------------------------------

\* C25: when splitSpace is called on a zoid that is splittable in space, the
\* dimension it selects, the first one of the strictly largest width of the
\* shadow, is itself splittable: its width is above 4 * height, and the
\* assertion isSplitable(split_dim) holds
C25_SplitDimSplitable ==
    probe.via = "space" =>
       LET z == probe.zoid
           d == SplitDim(z)
       IN  /\ IsSpaceSplitable(z)
           /\ d = Widest(z)
           /\ IsSplitable(z, d)
           /\ GetWidth(z, d) > 4 * (z.t_end - z.t_begin)

\* splitSpace was called on a 2-D zoid whose first dimension cannot be split
\* and has selected the second
C25_Witness ==
    /\ probe.via = "space"
    /\ Len(probe.zoid.base) = 2
    /\ ~ IsSplitable(probe.zoid, 1)
    /\ SplitDim(probe.zoid) = 2
    /\ GetHeight(probe.zoid) > 0

====
